---- MODULE Spec2Model ----
(***************************************************************************)
(* A model of tf2onnx/tf_utils.py: the TF -> ONNX type mapper              *)
(* (map_tf_dtype), the first conversion pass over a node list              *)
(* (tflist_to_onnx) and the pre-optimizer call (tf_optimize).              *)
(*                                                                         *)
(* Python values are modelled as records [kind, v]: kind names the Python  *)
(* type of the value (or the exception that was raised instead of a        *)
(* value), v is a sequence of integers holding its payload.  Dictionaries  *)
(* are functions whose DOMAIN is the key set.                              *)
(***************************************************************************)
EXTENDS Integers, Sequences, FiniteSets, TLC

\* ------------------------------------------------------------------ bounds
\* Longest node list passed to tflist_to_onnx.
MaxNodes == 2
\* Inputs + outputs + attributes over the whole node list.
MaxItems == 2
\* Largest TensorFlow type code tried on map_tf_dtype (0 is DT_INVALID).
MaxTypeCode == 23
\* Calls of map_tf_dtype whose arguments and results are kept.
MaxCalls == 2

\* --------------------------------------------------------- python values
None == [kind |-> "None", v |-> <<>>]
PyInt(n) == [kind |-> "int", v |-> <<n>>]
PyList(s) == [kind |-> "list", v |-> s]
PyBool(b) == [kind |-> "bool", v |-> <<IF b THEN 1 ELSE 0>>]
Raw(n) == [kind |-> "raw", v |-> <<n>>]
\* An exception raised instead of a value.
Raised(e) == [kind |-> e, v |-> <<>>]
Errors == {"KeyError", "TypeError", "RuntimeError"}
IsRaised(x) == x.kind \in Errors

\* Python truthiness, as `if dtype:` evaluates it.
Truthy(x) ==
    CASE x.kind = "None" -> FALSE
      [] x.kind \in {"int", "bool"} -> x.v[1] # 0
      [] x.kind = "list" -> x.v # <<>>
      [] OTHER -> TRUE

\* d[k] = v
Put(d, k, v) == [x \in DOMAIN d \cup {k} |-> IF x = k THEN v ELSE d[x]]
\* collections.Counter: c[k] += 1
Inc(c, k) == Put(c, k, IF k \in DOMAIN c THEN c[k] + 1 ELSE 1)
EmptyDict == <<>>

RECURSIVE SumOver(_, _)
SumOver(c, keys) ==
    IF keys = {} THEN 0
    ELSE LET k == CHOOSE x \in keys : TRUE
         IN  c[k] + SumOver(c, keys \ {k})
\* sum(c.values())
CounterTotal(c) == SumOver(c, DOMAIN c)

\* ------------------------------------------------- TF_TO_ONNX_DTYPE table
DT_FLOAT == 1
DT_DOUBLE == 2
DT_INT32 == 3
DT_UINT8 == 4
DT_INT16 == 5
DT_INT8 == 6
DT_STRING == 7
DT_COMPLEX64 == 8
DT_INT64 == 9
DT_BOOL == 10
DT_QUINT8 == 12
DT_UINT16 == 17
DT_COMPLEX128 == 18
DT_HALF == 19
DT_RESOURCE == 20

ONNX_FLOAT == 1
ONNX_UINT8 == 2
ONNX_INT8 == 3
ONNX_UINT16 == 4
ONNX_INT16 == 5
ONNX_INT32 == 6
ONNX_INT64 == 7
ONNX_STRING == 8
ONNX_BOOL == 9
ONNX_FLOAT16 == 10
ONNX_DOUBLE == 11
ONNX_COMPLEX64 == 14
ONNX_COMPLEX128 == 15

TF_TO_ONNX_DTYPE ==
    (DT_FLOAT :> ONNX_FLOAT) @@ (DT_HALF :> ONNX_FLOAT16) @@
    (DT_DOUBLE :> ONNX_DOUBLE) @@ (DT_INT32 :> ONNX_INT32) @@
    (DT_INT16 :> ONNX_INT16) @@ (DT_INT8 :> ONNX_INT8) @@
    (DT_UINT8 :> ONNX_UINT8) @@ (DT_UINT16 :> ONNX_UINT16) @@
    (DT_INT64 :> ONNX_INT64) @@ (DT_STRING :> ONNX_STRING) @@
    (DT_COMPLEX64 :> ONNX_COMPLEX64) @@ (DT_COMPLEX128 :> ONNX_COMPLEX128) @@
    (DT_BOOL :> ONNX_BOOL) @@ (DT_RESOURCE :> ONNX_INT64) @@
    (DT_QUINT8 :> ONNX_UINT8)

\* A falsy dtype (None, 0, an empty list) is returned as it is; anything else
\* is looked up in the table: KeyError for a code that is no key, TypeError
\* for a list, which cannot be hashed.
map_tf_dtype(dtype) ==
    IF ~Truthy(dtype) THEN dtype
    ELSE IF dtype.kind = "int" /\ dtype.v[1] \in DOMAIN TF_TO_ONNX_DTYPE
         THEN PyInt(TF_TO_ONNX_DTYPE[dtype.v[1]])
         ELSE IF dtype.kind = "int" THEN Raised("KeyError") ELSE Raised("TypeError")


\* --------------------------------------------------------------- state
VARIABLES
    node_list,      \* tflist_to_onnx: the node list it was given
    shape_override, \* tflist_to_onnx: output name -> shape or None
    pc,             \* "scan", "convert", "done" or "failed"
    idx,            \* position in node_list of the next node to convert
    op_cnt,         \* Counter of node.type
    attr_cnt,       \* Counter of attribute names
    onnx_nodes,     \* the converted nodes so far
    output_shapes,  \* output name -> shape or None
    dtypes,         \* output name (and node name) -> onnx type
    err,            \* the exception that left tflist_to_onnx, "" if none
    ret,            \* <<>> until tflist_to_onnx returns, then <<its 5-tuple>>
    calls,          \* map_tf_dtype: the calls made, [arg, res] each
    opt             \* tf_optimize: its arguments and the calls it made

vars == <<node_list, shape_override, pc, idx, op_cnt, attr_cnt, onnx_nodes,
          output_shapes, dtypes, err, ret, calls, opt>>

\* ---------------------------------------------------------- accessors
\* node.name and out.name: TensorFlow names output k of node n "n:k", and a
\* node name holds no colon, so no node name is an output name.
NodeName(p) == <<"node", p>>
OutName(p, k) == <<"node", p, k>>

\* node.node_def.attr is node.attrs, in the order its iteration yields it.
HasAttr(node, name) == \E k \in 1..Len(node.attrs) : node.attrs[k].name = name

get_tf_node_attr(node, name) ==
    node.attrs[CHOOSE k \in 1..Len(node.attrs) : node.attrs[k].name = name].value

\* get_tf_shape_attr without the unknown_rank test.
get_tf_shape_attr_NoRankCheck(node) ==
    LET shape == get_tf_node_attr(node, "shape")
    IN  IF shape.kind \in {"shape", "unknown_rank"} THEN PyList(shape.v) ELSE None

\* The dims of attribute "shape", None when it reports unknown rank or when
\* reading it raises (the bare except).
get_tf_shape_attr(node) ==
    LET shape == get_tf_node_attr(node, "shape")
    IN  IF shape.kind = "unknown_rank" THEN None
        ELSE IF shape.kind = "shape" THEN PyList(shape.v)
        ELSE None

\* tensor.get_shape().as_list(), None when it raises.
get_tf_tensor_shape(tensor) ==
    IF tensor.shape.kind = "shape" THEN PyList(tensor.shape.v) ELSE None

\* A numeric tensor and an object tensor whose items convert to str become an
\* onnx tensor; an object tensor whose items do not raises RuntimeError.
tf_to_onnx_tensor(tensor) ==
    IF tensor.kind \in {"tensor", "strtensor"}
    THEN [kind |-> "onnx_tensor", v |-> tensor.v]
    ELSE Raised("RuntimeError")

ignored_attr ==
    {"unknown_rank", "_class", "Tshape", "use_cudnn_on_gpu", "Index", "Tpaddings",
     "TI", "Tparams", "Tindices", "Tlen", "Tdim", "dynamic_size", "Tmultiples",
     "Tblock_shape", "Tcrops", "index_type", "Taxis", "U", "maxval",
     "Tout", "Tlabels", "Tindex", "element_shape", "Targmax"}

\* ------------------------------------------------ first loop: the outputs
\* The static shape wins over the override.
ResolveShape_StaticFirst(override, out) ==
    LET static == get_tf_tensor_shape(out)
    IN  IF static = None /\ out.name \in DOMAIN override
        THEN override[out.name] ELSE static

\* shape_override.get(out.name), and the static shape when that is None.
ResolveShape(override, out) ==
    LET shape == IF out.name \in DOMAIN override THEN override[out.name] ELSE None
    IN  IF shape = None THEN get_tf_tensor_shape(out) ELSE shape

\* One output whose shape is unknown gets no output_shapes entry.
ScanOutput_SkipUnknown(t, override, out) ==
    LET shape == ResolveShape(override, out)
        dtype == map_tf_dtype(out.dtype)
    IN  IF t.err # "" THEN t
        ELSE IF IsRaised(dtype) THEN [t EXCEPT !.err = dtype.kind]
        ELSE [t EXCEPT !.dtypes = Put(@, out.name, dtype),
                       !.output_shapes =
                           IF shape = None THEN @ ELSE Put(@, out.name, shape)]

\* The body of the inner loop; t.err is the exception on its way out.
ScanOutput(t, override, out) ==
    LET shape == ResolveShape(override, out)
        dtype == map_tf_dtype(out.dtype)
    IN  IF t.err # "" THEN t
        ELSE IF IsRaised(dtype) THEN [t EXCEPT !.err = dtype.kind]
        ELSE [t EXCEPT !.dtypes = Put(@, out.name, dtype),
                       !.output_shapes = Put(@, out.name, shape)]

RECURSIVE ScanOuts(_, _, _, _)
ScanOuts(t, override, outs, k) ==
    IF k > Len(outs) THEN t
    ELSE ScanOuts(ScanOutput(t, override, outs[k]), override, outs, k + 1)

RECURSIVE ScanNodes(_, _, _, _)
ScanNodes(t, override, nodes, p) ==
    IF p > Len(nodes) THEN t
    ELSE ScanNodes(ScanOuts(t, override, nodes[p].outputs, 1), override, nodes, p + 1)


\* ------------------------------------------- second loop: the attributes
\* acc is the state of one node's conversion: [attr, dtypes, attr_cnt, err].

\* The count is taken after the `continue` of a dropped attribute.
Counted_SkipDropped(acc, a) ==
    IF a = "SrcT" \/ a \in ignored_attr THEN acc
    ELSE [acc EXCEPT !.attr_cnt = Inc(@, a)]

\* attr_cnt[a] += 1
Counted(acc, a) == [acc EXCEPT !.attr_cnt = Inc(@, a)]

\* attr[key] = map_tf_dtype(get_tf_node_attr(node, a))
MapInto(acc, node, a, key) ==
    LET m == map_tf_dtype(get_tf_node_attr(node, a))
    IN  IF IsRaised(m) THEN [acc EXCEPT !.err = m.kind]
        ELSE [acc EXCEPT !.attr = Put(@, key, m)]

\* The type of "T" is recorded as it is, not mapped.
OnT_Unmapped(acc, node) ==
    LET dtype == get_tf_node_attr(node, "T")
    IN  IF Truthy(dtype) /\ dtype.kind # "list"
        THEN [acc EXCEPT !.dtypes = Put(@, node.name, dtype)]
        ELSE acc

\* a == "T": a single type is mapped and recorded under the node's name.
OnT(acc, node) ==
    LET dtype == get_tf_node_attr(node, "T")
    IN  IF Truthy(dtype) /\ dtype.kind # "list"
        THEN LET m == map_tf_dtype(dtype)
             IN  IF IsRaised(m) THEN [acc EXCEPT !.err = m.kind]
                 ELSE [acc EXCEPT !.dtypes = Put(@, node.name, m)]
        ELSE acc

\* a == "shape"
OnShape(acc, node) ==
    LET shape == get_tf_shape_attr(node)
    IN  IF shape # None THEN [acc EXCEPT !.attr = Put(@, "shape", shape)] ELSE acc

\* a == "value"
OnValue(acc, node) ==
    LET onnx_tensor == tf_to_onnx_tensor(get_tf_node_attr(node, "value"))
    IN  IF IsRaised(onnx_tensor) THEN [acc EXCEPT !.err = onnx_tensor.kind]
        ELSE [acc EXCEPT !.attr = Put(@, "value", onnx_tensor)]

\* "DstT" keeps its name.
OnDstT_KeepName(acc, node) == MapInto(acc, node, "DstT", "DstT")

\* a == "DstT": the mapped type goes under "to".
OnDstT(acc, node) == MapInto(acc, node, "DstT", "to")

\* The if/elif chain on the attribute's name, after the count.
AttrStep(acc, node, a) ==
    LET c == Counted(acc, a)
    IN  IF a = "dtype" THEN MapInto(c, node, "dtype", a)
        ELSE IF a = "T" THEN OnT(c, node)
        ELSE IF a \in {"output_type", "output_dtype", "out_type", "Tidx", "out_idx"}
             THEN MapInto(c, node, a, a)
        ELSE IF a = "shape" THEN OnShape(c, node)
        ELSE IF a = "Tperm" THEN c
        ELSE IF a = "value" THEN OnValue(c, node)
        ELSE IF a = "DstT" THEN OnDstT(c, node)
        ELSE IF a = "SrcT" THEN c
        ELSE IF a \in ignored_attr THEN c
        ELSE [c EXCEPT !.attr = Put(@, a, get_tf_node_attr(node, a))]

\* for a in node.node_def.attr, left at the first exception.
RECURSIVE ResolveAttrs(_, _, _)
ResolveAttrs(acc, node, k) ==
    IF k > Len(node.attrs) \/ acc.err # "" THEN acc
    ELSE ResolveAttrs(AttrStep(acc, node, node.attrs[k].name), node, k + 1)

\* helper.make_node(..., name=node.name, **attr) raises TypeError when attr has
\* a key "name": the keyword is then given twice.
MakeNodeRaises(attr) == "name" \in DOMAIN attr

\* The input names are taken in reverse.
make_node_Reversed(op_type, inputs, outputs, name, attr) ==
    [op_type |-> op_type,
     input |-> [k \in 1..Len(inputs) |-> inputs[Len(inputs) + 1 - k]],
     output |-> outputs, name |-> name, attribute |-> attr]

make_node(op_type, inputs, outputs, name, attr) ==
    [op_type |-> op_type, input |-> inputs, output |-> outputs, name |-> name,
     attribute |-> attr]

OutputNames(node) == [k \in 1..Len(node.outputs) |-> node.outputs[k].name]


\* ---------------------------------------------------------------- inputs
\* A type code the table has no key for (DT_QINT8 = 11).
UnsupportedCode == CHOOSE c \in 1..MaxTypeCode : c \notin DOMAIN TF_TO_ONNX_DTYPE

\* The attributes tried: every branch of the if/elif chain, with the values
\* get_attr can hand back.  A type is a tf.DType, never DT_INVALID; "T" may
\* also be a list of types, possibly empty.
AttrItems ==
    {[name |-> "dtype", value |-> PyInt(DT_INT32)]}
    \cup {[name |-> "T", value |-> x] :
            x \in {PyInt(DT_INT32), PyInt(UnsupportedCode), PyList(<<DT_INT32>>),
                   PyList(<<>>)}}
    \cup {[name |-> "out_type", value |-> PyInt(DT_INT64)]}
    \cup {[name |-> "shape", value |-> x] :
            x \in {[kind |-> "shape", v |-> <<>>], [kind |-> "shape", v |-> <<2, -1>>],
                   [kind |-> "unknown_rank", v |-> <<>>],
                   [kind |-> "malformed", v |-> <<>>]}}
    \cup {[name |-> "Tperm", value |-> PyInt(DT_INT32)]}
    \cup {[name |-> "value", value |-> x] :
            x \in {[kind |-> "tensor", v |-> <<1>>], [kind |-> "strtensor", v |-> <<1>>],
                   [kind |-> "objtensor", v |-> <<1>>]}}
    \cup {[name |-> "DstT", value |-> x] : x \in {PyInt(DT_HALF), PyInt(UnsupportedCode)}}
    \cup {[name |-> "SrcT", value |-> PyInt(DT_INT32)]}
    \cup {[name |-> "_class", value |-> Raw(1)]}
    \cup {[name |-> "to", value |-> Raw(2)]}
    \cup {[name |-> "name", value |-> Raw(3)]}
    \cup {[name |-> "N", value |-> Raw(4)]}

\* An output: its dtype (a tf.DType, never DT_INVALID), its static shape (or
\* "unknown": as_list raises) and its shape_override entry: <<>> none,
\* <<None>>, <<a shape>>.
OutItems ==
    [dtype : {PyInt(DT_INT32), PyInt(UnsupportedCode)},
     shape : {[kind |-> "shape", v |-> <<2>>], [kind |-> "unknown", v |-> <<>>]},
     ovr : {<<>>, <<None>>, <<PyList(<<5>>)>>}]

InNames == {OutName(1, 0), OutName(2, 0)}

\* The ways to hand t items, in order, to n nodes: item k goes to node f[k].
Owners(t, n) == {f \in [1..t -> 1..n] : \A j, k \in 1..t : j <= k => f[j] <= f[k]}

\* The items of seq that owner hands to node p, in order.
Owned(seq, owner, p) ==
    LET ks == {k \in 1..Len(seq) : owner[k] = p}
        lo == CHOOSE k \in ks : \A j \in ks : k <= j
    IN  [j \in 1..Cardinality(ks) |-> seq[lo + j - 1]]

\* node.type follows from the attributes the operator declares.
OpTypeOf(attrs) ==
    LET names == {attrs[k].name : k \in 1..Len(attrs)}
    IN  IF "DstT" \in names \/ "SrcT" \in names THEN "Cast"
        ELSE IF "value" \in names THEN "Const"
        ELSE IF "shape" \in names THEN "Placeholder"
        ELSE "Identity"

\* Node p of a list whose inputs, outputs and attributes are ins, outs and
\* attrs, handed to the nodes by io, oo and ao.
MkNode(p, ins, io, outs, oo, attrs, ao) ==
    LET o == Owned(outs, oo, p)
        a == Owned(attrs, ao, p)
    IN  [name |-> NodeName(p), type |-> OpTypeOf(a), inputs |-> Owned(ins, io, p),
         outputs |-> [k \in 1..Len(o) |->
                        [name |-> OutName(p, k - 1), dtype |-> o[k].dtype,
                         shape |-> o[k].shape]],
         attrs |-> a]

\* The shape_override entries of the outputs that have one.
MkOverride(outs, oo) ==
    LET has == {k \in 1..Len(outs) : outs[k].ovr # <<>>}
        key(k) == OutName(oo[k], Cardinality({j \in 1..k - 1 : oo[j] = oo[k]}))
    IN  [x \in {key(k) : k \in has} |->
            outs[CHOOSE k \in has : key(k) = x].ovr[1]]

NoOpt == [pc |-> "idle"]

\* ------------------------------------------------------- tflist_to_onnx
Init ==
    /\ \E n \in 0..MaxNodes, ti \in 0..MaxItems :
       \E to \in 0..(MaxItems - ti) :
       \E ta \in 0..(MaxItems - ti - to) :
       \E io \in Owners(ti, n), oo \in Owners(to, n), ao \in Owners(ta, n) :
       \E ins \in [1..ti -> InNames], outs \in [1..to -> OutItems],
          attrs \in [1..ta -> AttrItems] :
          \* the attributes of a node are a map: no name twice
          /\ \A j, k \in 1..ta : j # k /\ ao[j] = ao[k] => attrs[j].name # attrs[k].name
          /\ node_list = [p \in 1..n |-> MkNode(p, ins, io, outs, oo, attrs, ao)]
          /\ shape_override = MkOverride(outs, oo)
    /\ pc = "scan"
    /\ idx = 1
    /\ op_cnt = EmptyDict
    /\ attr_cnt = EmptyDict
    /\ onnx_nodes = <<>>
    /\ output_shapes = EmptyDict
    /\ dtypes = EmptyDict
    /\ err = ""
    /\ ret = <<>>
    /\ calls = <<>>
    /\ opt = NoOpt

\* Lines 169-175: the loop over every output of every node.
ScanOutputs ==
    /\ pc = "scan"
    /\ LET t == ScanNodes([dtypes |-> dtypes, output_shapes |-> output_shapes,
                           err |-> ""], shape_override, node_list, 1)
       IN  /\ dtypes' = t.dtypes
           /\ output_shapes' = t.output_shapes
           /\ err' = t.err
           /\ pc' = IF t.err # "" THEN "failed" ELSE "convert"
    /\ UNCHANGED <<node_list, shape_override, idx, op_cnt, attr_cnt, onnx_nodes, ret,
                   calls, opt>>

\* A node whose conversion raises is left out and the loop goes on.
ConvertNode_BestEffort ==
    /\ pc = "convert"
    /\ idx <= Len(node_list)
    /\ LET node == node_list[idx]
           acc == ResolveAttrs([attr |-> EmptyDict, dtypes |-> dtypes,
                                attr_cnt |-> attr_cnt, err |-> ""], node, 1)
           bad == acc.err # "" \/ MakeNodeRaises(acc.attr)
       IN  /\ op_cnt' = Inc(op_cnt, node.type)
           /\ attr_cnt' = acc.attr_cnt
           /\ dtypes' = acc.dtypes
           /\ onnx_nodes' = IF bad THEN onnx_nodes
                            ELSE Append(onnx_nodes,
                                        make_node(node.type, node.inputs,
                                                  OutputNames(node), node.name, acc.attr))
    /\ idx' = idx + 1
    /\ UNCHANGED <<node_list, shape_override, output_shapes, ret, calls, opt, pc, err>>

\* Lines 178-221: one turn of the loop over the nodes.  An exception of the
\* attribute chain or of make_node leaves tflist_to_onnx.
ConvertNode ==
    /\ pc = "convert"
    /\ idx <= Len(node_list)
    /\ LET node == node_list[idx]
           acc == ResolveAttrs([attr |-> EmptyDict, dtypes |-> dtypes,
                                attr_cnt |-> attr_cnt, err |-> ""], node, 1)
           raised == IF acc.err # "" THEN acc.err
                     ELSE IF MakeNodeRaises(acc.attr) THEN "TypeError" ELSE ""
       IN  /\ op_cnt' = Inc(op_cnt, node.type)
           /\ attr_cnt' = acc.attr_cnt
           /\ dtypes' = acc.dtypes
           /\ err' = raised
           /\ IF raised # ""
              THEN pc' = "failed" /\ UNCHANGED <<onnx_nodes, idx>>
              ELSE /\ onnx_nodes' = Append(onnx_nodes,
                                           make_node(node.type, node.inputs,
                                                     OutputNames(node), node.name,
                                                     acc.attr))
                   /\ idx' = idx + 1
                   /\ pc' = pc
    /\ UNCHANGED <<node_list, shape_override, output_shapes, ret, calls, opt>>

\* Line 223.
Return ==
    /\ pc = "convert"
    /\ idx > Len(node_list)
    /\ pc' = "done"
    /\ ret' = <<[onnx_nodes |-> onnx_nodes, op_cnt |-> op_cnt, attr_cnt |-> attr_cnt,
                 output_shapes |-> output_shapes, dtypes |-> dtypes]>>
    /\ UNCHANGED <<node_list, shape_override, idx, op_cnt, attr_cnt, onnx_nodes,
                   output_shapes, dtypes, err, calls, opt>>

Next == ScanOutputs \/ ConvertNode \/ Return

Spec == Init /\ [][Next]_vars


\* ---------------------------------------------------------- map_tf_dtype
\* tflist_to_onnx at rest, while another function is exercised.
TflistIdle ==
    /\ node_list = <<>>
    /\ shape_override = EmptyDict
    /\ pc = "idle"
    /\ idx = 1
    /\ op_cnt = EmptyDict
    /\ attr_cnt = EmptyDict
    /\ onnx_nodes = <<>>
    /\ output_shapes = EmptyDict
    /\ dtypes = EmptyDict
    /\ err = ""
    /\ ret = <<>>

tflist_vars == <<node_list, shape_override, pc, idx, op_cnt, attr_cnt, onnx_nodes,
                 output_shapes, dtypes, err, ret>>

\* The arguments tried: None and every type code up to MaxTypeCode.
MapArgs == {None} \cup {PyInt(c) : c \in 0..MaxTypeCode}

InitMap == TflistIdle /\ calls = <<>> /\ opt = NoOpt

CallMap ==
    /\ Len(calls) < MaxCalls
    /\ \E dtype \in MapArgs :
          calls' = Append(calls, [arg |-> dtype, res |-> map_tf_dtype(dtype)])
    /\ UNCHANGED <<tflist_vars, opt>>

NextMap == CallMap

SpecMap == InitMap /\ [][NextMap]_vars

\* ----------------------------------------------------------- tf_optimize
\* A tensor name "n:k" is <<n, k>>; utils.node_name drops the port.
node_name(t) == t[1]

\* The transforms are all gated by the flag.
Transforms_AllGated(fold_constant) ==
    IF Truthy(fold_constant)
    THEN <<"fold_constants(ignore_errors=true)",
           "remove_attribute(attribute_name=_class)",
           "fold_batch_norms", "fold_old_batch_norms">>
    ELSE <<>>

\* Lines 130-140: the transform list.
Transforms(fold_constant) ==
    (IF Truthy(fold_constant)
     THEN <<"fold_constants(ignore_errors=true)",
            "remove_attribute(attribute_name=_class)">>
     ELSE <<>>)
    \o <<"fold_batch_norms", "fold_old_batch_norms">>

\* Line 141.
NeededNames(inputs, outputs) ==
    [k \in 1..Len(inputs) |-> node_name(inputs[k])]
    \o [k \in 1..Len(outputs) |-> node_name(outputs[k])]

\* graph_util.extract_sub_graph: the nodes the named nodes depend on, the
\* named nodes included.  graph_def maps a node to the nodes it reads.
RECURSIVE Closure(_, _)
Closure(graph_def, nodes) ==
    LET more == nodes \cup UNION {graph_def[n] : n \in nodes}
    IN  IF more = nodes THEN nodes ELSE Closure(graph_def, more)

extract_sub_graph(graph_def, dest_nodes) ==
    LET keep == Closure(graph_def, {dest_nodes[k] : k \in 1..Len(dest_nodes)})
    IN  [n \in keep |-> graph_def[n]]

\* The graphs tried: y may read a; z may read a and y.
GraphDefs ==
    {[n \in {"a", "y", "z"} |-> IF n = "y" THEN ry ELSE IF n = "z" THEN rz ELSE {}] :
        ry \in SUBSET {"a"}, rz \in SUBSET {"a", "y"}}

OptInputs == {<<>>, <<<<"a", 0>>>>}
OptOutputs ==
    LET t == {<<"y", 0>>, <<"z", 0>>, <<"z", 1>>}
    IN  {<<x>> : x \in t} \cup {<<x, y>> : x \in t, y \in t}
FoldFlags == {None, PyBool(TRUE), PyBool(FALSE)}

InitOpt ==
    /\ TflistIdle
    /\ calls = <<>>
    /\ \E inputs \in OptInputs, outputs \in OptOutputs, graph_def \in GraphDefs,
          fold_constant \in FoldFlags :
          opt = [pc |-> "start", inputs |-> inputs, outputs |-> outputs,
                 graph_def |-> graph_def, fold_constant |-> fold_constant,
                 trace |-> <<>>]

\* Lines 128-144.  trace is the calls made, in order: the graph and the names
\* or transforms each was given.  TransformGraph is opaque: the graph it is
\* given stands for the one it returns.
tf_optimize ==
    /\ opt.pc = "start"
    /\ LET transforms == Transforms(opt.fold_constant)
           needed_names == NeededNames(opt.inputs, opt.outputs)
           sub == extract_sub_graph(opt.graph_def, needed_names)
       IN  opt' = [opt EXCEPT
                     !.pc = "done",
                     !.trace = <<[fn |-> "extract_sub_graph", graph |-> opt.graph_def,
                                  args |-> needed_names],
                                 [fn |-> "TransformGraph", graph |-> sub,
                                  args |-> transforms]>>]
    /\ UNCHANGED <<tflist_vars, calls>>

NextOpt == tf_optimize

SpecOpt == InitOpt /\ [][NextOpt]_vars


\* ================================================================ claims
\* What the claims read off a finished pass.
Returned == pc = "done" /\ Len(ret) = 1
Result == ret[1]
Positions == 1..Len(node_list)
AttrPos(node) == 1..Len(node.attrs)
\* The mapped type of code c, read off the table.
Mapped(c) == PyInt(TF_TO_ONNX_DTYPE[c])
IsKey(x) == x.kind = "int" /\ x.v[1] \in DOMAIN TF_TO_ONNX_DTYPE
SeqRange(q) == {q[k] : k \in 1..Len(q)}
\* The output names of the converted nodes.
ConvertedOutNames == UNION {SeqRange(n.output) : n \in SeqRange(Result.onnx_nodes)}
\* The nodes whose attribute "T" is one type, not a list and not empty.
SingleT(node) ==
    \E k \in AttrPos(node) :
        node.attrs[k].name = "T" /\ node.attrs[k].value.kind = "int"
\* An attribute at which the conversion of its node raises.
FatalAttr(item) ==
    \/ /\ item.name \in {"dtype", "output_type", "output_dtype", "out_type", "Tidx",
                         "out_idx", "DstT", "T"}
       /\ item.value.kind = "int"
       /\ ~IsKey(item.value)
    \/ item.name = "value" /\ item.value.kind = "objtensor"
    \/ item.name = "name"
FatalOutput(node) == \E k \in 1..Len(node.outputs) : ~IsKey(node.outputs[k].dtype)
FatalNode(node) == \E k \in AttrPos(node) : FatalAttr(node.attrs[k])

\* C1 as stated: after a successful pass the key sets of the dtype table and
\* of the shape table both equal the set of output names of the converted
\* nodes.
C1_Original ==
    Returned =>
        /\ DOMAIN Result.dtypes = ConvertedOutNames
        /\ DOMAIN Result.output_shapes = ConvertedOutNames

\* C1 amended: after a successful pass the key set of the shape table is the
\* set of output names of the converted nodes, and the key set of the dtype
\* table is that set together with the name of every node whose attribute "T"
\* is a single type.
C1_KeySets ==
    Returned =>
        /\ DOMAIN Result.output_shapes = ConvertedOutNames
        /\ DOMAIN Result.dtypes =
              ConvertedOutNames
              \cup {node_list[p].name : p \in {q \in Positions : SingleT(node_list[q])}}

C1_Witness ==
    /\ Returned
    /\ ConvertedOutNames # {}
    /\ \E p \in Positions : SingleT(node_list[p])

\* C2 as stated: every output with an entry in shape_override gets the
\* entry's value as its recorded shape, a None entry included.
C2_Original ==
    Returned =>
        \A p \in Positions : \A k \in 1..Len(node_list[p].outputs) :
            LET out == node_list[p].outputs[k]
            IN  out.name \in DOMAIN shape_override =>
                    Result.output_shapes[out.name] = shape_override[out.name]

\* C2 amended: an output whose shape_override entry is not None gets the
\* entry's value, whatever its static shape; an output with no entry or with
\* the entry None gets its static shape, and None when reading it fails.
C2_OverrideWins ==
    Returned =>
        \A p \in Positions : \A k \in 1..Len(node_list[p].outputs) :
            LET out == node_list[p].outputs[k]
                overridden == /\ out.name \in DOMAIN shape_override
                              /\ shape_override[out.name].kind # "None"
            IN  Result.output_shapes[out.name] =
                    IF overridden THEN shape_override[out.name]
                    ELSE IF out.shape.kind = "shape" THEN PyList(out.shape.v)
                    ELSE None

C2_Witness ==
    /\ Returned
    /\ \E p \in Positions : \E k \in 1..Len(node_list[p].outputs) :
          LET out == node_list[p].outputs[k]
          IN  /\ out.name \in DOMAIN shape_override
              /\ shape_override[out.name].kind = "list"
              /\ out.shape.kind = "shape"
              /\ shape_override[out.name].v # out.shape.v
              /\ Result.output_shapes[out.name] = shape_override[out.name]

\* C3: map_tf_dtype returns the table's value for a code that is a key,
\* raises for a code that is not, and returns None for None.
C3_MapOrFail ==
    \A k \in 1..Len(calls) :
        LET c == calls[k]
        IN  /\ IsKey(c.arg) => c.res = Mapped(c.arg.v[1])
            /\ (c.arg.kind = "int" /\ ~IsKey(c.arg)) => IsRaised(c.res)
            /\ c.arg = None => c.res = None


\* C4: a pass ends in exactly one of two states, success with one converted
\* node per input node and the four tables returned, or failure with nothing
\* returned; an unsupported type code, an undecodable tensor value or a
\* node-assembly error aborts the pass at its node, with no later node
\* converted.
C4_AllOrNothing ==
    /\ pc \in {"scan", "convert"} => ret = <<>> /\ err = ""
    /\ pc = "done" =>
          /\ Len(ret) = 1 /\ err = ""
          /\ Len(Result.onnx_nodes) = Len(node_list)
          /\ DOMAIN Result =
                {"onnx_nodes", "op_cnt", "attr_cnt", "output_shapes", "dtypes"}
          /\ \A p \in Positions : ~FatalOutput(node_list[p]) /\ ~FatalNode(node_list[p])
          /\ ~ENABLED Next
    /\ pc = "failed" =>
          /\ ret = <<>> /\ err \in Errors
          /\ ~ENABLED Next
          /\ IF \E p \in Positions : FatalOutput(node_list[p])
             THEN onnx_nodes = <<>> /\ op_cnt = EmptyDict
             ELSE /\ Len(onnx_nodes) < Len(node_list)
                  /\ FatalNode(node_list[Len(onnx_nodes) + 1])
                  /\ \A q \in 1..Len(onnx_nodes) : ~FatalNode(node_list[q])
                  /\ CounterTotal(op_cnt) = Len(onnx_nodes) + 1

C4_Witness ==
    /\ pc = "failed"
    /\ Len(node_list) >= 2
    /\ op_cnt # EmptyDict
    /\ Len(onnx_nodes) + 1 < Len(node_list)

\* The attributes of all nodes, counted.
RECURSIVE AttrTotal(_, _)
AttrTotal(nodes, p) ==
    IF p > Len(nodes) THEN 0 ELSE Len(nodes[p].attrs) + AttrTotal(nodes, p + 1)

\* C5: after a successful pass the operator-type counts sum to the number of
\* nodes and the attribute-name counts sum to the number of attributes of all
\* nodes, dropped ones included.
C5_CountersConserve ==
    Returned =>
        /\ CounterTotal(Result.op_cnt) = Len(node_list)
        /\ CounterTotal(Result.attr_cnt) = AttrTotal(node_list, 1)

C5_Witness ==
    /\ Returned
    /\ Len(node_list) >= 2
    /\ AttrTotal(node_list, 1) >= 2
    /\ \E p \in Positions : \E k \in AttrPos(node_list[p]) :
          node_list[p].attrs[k].name \in {"SrcT", "_class", "Tperm"}

\* C6: on success the converted list has the length and order of the input
\* list, and converted node p has node p's name, operator type, input names
\* and output names, in order.
C6_NodesPreserved ==
    Returned =>
        /\ Len(Result.onnx_nodes) = Len(node_list)
        /\ \A p \in Positions :
              LET n == Result.onnx_nodes[p]
                  node == node_list[p]
              IN  /\ n.name = node.name
                  /\ n.op_type = node.type
                  /\ n.input = node.inputs
                  /\ Len(n.output) = Len(node.outputs)
                  /\ \A k \in 1..Len(n.output) : n.output[k] = node.outputs[k].name

C6_Witness ==
    /\ Returned
    /\ Len(node_list) >= 2
    /\ \E p \in Positions :
          /\ Len(node_list[p].inputs) = 2
          /\ node_list[p].inputs[1] # node_list[p].inputs[2]

\* C7 as stated: a node with attribute "DstT" = X converts to a mapping with
\* "to" = the mapped type of X and without "DstT" and "SrcT", whatever its
\* other attributes.
C7_Original ==
    Returned =>
        \A p \in Positions : \A k \in AttrPos(node_list[p]) :
            LET a == Result.onnx_nodes[p].attribute
                item == node_list[p].attrs[k]
            IN  item.name = "DstT" =>
                    /\ "to" \in DOMAIN a
                    /\ a["to"] = Mapped(item.value.v[1])
                    /\ "DstT" \notin DOMAIN a
                    /\ "SrcT" \notin DOMAIN a

\* C7 amended: a node with attribute "DstT" = X converts to a mapping without
\* "DstT" and "SrcT" and with a key "to"; its value is the mapped type of X,
\* unless the node also has an attribute named "to" that the iteration yields
\* after "DstT": then it is that attribute's value, copied.
C7_RenamedToTo ==
    Returned =>
        \A p \in Positions : \A k \in AttrPos(node_list[p]) :
            LET a == Result.onnx_nodes[p].attribute
                node == node_list[p]
                item == node.attrs[k]
                later == {j \in AttrPos(node) : j > k /\ node.attrs[j].name = "to"}
            IN  item.name = "DstT" =>
                    /\ "to" \in DOMAIN a
                    /\ a["to"] = IF later = {} THEN Mapped(item.value.v[1])
                                 ELSE node.attrs[CHOOSE j \in later : TRUE].value
                    /\ "DstT" \notin DOMAIN a
                    /\ "SrcT" \notin DOMAIN a

C7_Witness ==
    /\ Returned
    /\ \E p \in Positions :
          /\ HasAttr(node_list[p], "DstT")
          /\ HasAttr(node_list[p], "SrcT")
          /\ Result.onnx_nodes[p].attribute["to"].kind = "int"

\* C8: a node with an attribute "shape" gets a "shape" entry, the list of its
\* dimension sizes, exactly when the attribute reads as a shape of known
\* rank; unknown rank or a failed read gives no entry and no error: the pass
\* fails only at an unsupported type, an undecodable tensor or an assembly
\* error.
C8_ShapeNeverFatal ==
    /\ Returned =>
          \A p \in Positions : \A k \in AttrPos(node_list[p]) :
              LET a == Result.onnx_nodes[p].attribute
                  item == node_list[p].attrs[k]
              IN  item.name = "shape" =>
                      /\ "shape" \in DOMAIN a <=> item.value.kind = "shape"
                      /\ item.value.kind = "shape" => a["shape"] = PyList(item.value.v)
    /\ pc = "failed" =>
          \E p \in Positions : FatalOutput(node_list[p]) \/ FatalNode(node_list[p])

C8_Witness ==
    /\ Returned
    /\ Len(node_list) >= 2
    /\ LET node == node_list[1]
       IN  /\ Len(node.attrs) = 2
           /\ node.attrs[1].name = "shape"
           /\ node.attrs[1].value.kind \in {"unknown_rank", "malformed"}
           /\ node.attrs[2].name \in DOMAIN Result.onnx_nodes[1].attribute

\* C10: for a node with attribute "T", a single type code puts the mapped
\* type under the node's name in the dtype table, a list or an empty value
\* puts nothing under it, and the converted mapping never has a key "T".
C10_NodeDtype ==
    Returned =>
        \A p \in Positions : \A k \in AttrPos(node_list[p]) :
            LET node == node_list[p]
                item == node.attrs[k]
            IN  item.name = "T" =>
                    /\ item.value.kind = "int" =>
                          /\ node.name \in DOMAIN Result.dtypes
                          /\ Result.dtypes[node.name] = Mapped(item.value.v[1])
                    /\ item.value.kind = "list" => node.name \notin DOMAIN Result.dtypes
                    /\ "T" \notin DOMAIN Result.onnx_nodes[p].attribute

C10_Witness ==
    /\ Returned
    /\ \E p, q \in Positions :
          /\ \E k \in AttrPos(node_list[p]) :
                node_list[p].attrs[k].name = "T" /\ node_list[p].attrs[k].value.kind = "int"
          /\ \E k \in AttrPos(node_list[q]) :
                node_list[q].attrs[k].name = "T" /\ node_list[q].attrs[k].value.kind = "list"

\* The node names of the inputs and outputs tf_optimize was given.
OptNeeded == {opt.inputs[k][1] : k \in 1..Len(opt.inputs)}
             \cup {opt.outputs[k][1] : k \in 1..Len(opt.outputs)}
\* The nodes a path of reads leads to from a needed node.
OptReached ==
    LET N == DOMAIN opt.graph_def
    IN  {n \in N : \E len \in 1..Cardinality(N) : \E path \in [1..len -> N] :
            /\ path[1] \in OptNeeded
            /\ path[len] = n
            /\ \A k \in 1..(len - 1) : path[k + 1] \in opt.graph_def[path[k]]}

\* C9: tf_optimize first cuts the graph down to what the nodes of the inputs
\* and outputs need and then applies one transform sequence to it: the two
\* batch-norm folds close it on every call; constant folding and the removal
\* of _class are in it, before the folds, exactly when the flag is set.
C9_TransformSequence ==
    opt.pc = "done" =>
        LET T == opt.trace[2].args
            n == Len(T)
            set == opt.fold_constant = PyBool(TRUE)
        IN  /\ Len(opt.trace) = 2
            /\ opt.trace[1].fn = "extract_sub_graph"
            /\ opt.trace[1].graph = opt.graph_def
            /\ SeqRange(opt.trace[1].args) = OptNeeded
            /\ opt.trace[2].fn = "TransformGraph"
            /\ DOMAIN opt.trace[2].graph = OptReached
            /\ n >= 2
            /\ T[n - 1] = "fold_batch_norms"
            /\ T[n] = "fold_old_batch_norms"
            /\ IF set
               THEN /\ n = 4
                    /\ T[1] = "fold_constants(ignore_errors=true)"
                    /\ T[2] = "remove_attribute(attribute_name=_class)"
               ELSE n = 2

C9_Witness ==
    /\ opt.pc = "done"
    /\ opt.fold_constant # PyBool(TRUE)
    /\ "fold_batch_norms" \in SeqRange(opt.trace[2].args)
    /\ DOMAIN opt.trace[2].graph # DOMAIN opt.graph_def

====
